---- MODULE Spec2Model ----
(***************************************************************************)
(* Jarvis HAL: the chat session of src/jarvis/cli.py (chat, chat_loop),    *)
(* the provider adapters and factory of src/jarvis/providers.py and the    *)
(* availability rule of src/jarvis/config.py.                              *)
(*                                                                         *)
(* Text is a sequence of tokens: an input line is a sequence of one-       *)
(* character strings, so that startswith, [2:] and strip() are computed    *)
(* on it as Python computes them.                                          *)
(***************************************************************************)
EXTENDS Integers, Sequences, FiniteSets, TLC

VARIABLES
    pc,               \* where the program is: see PcValues
    config,           \* Config.load(): [api |-> ..., model |-> ...]
    provider_arg,     \* cli.py:138, the name provider while it holds the
                      \* --provider option; cli.py:185 rebinds it
    chosen,           \* cli.py:148
    provider,         \* cli.py:185, the name provider once it holds the
                      \* default handle
    messages,         \* cli.py:177, the transcript
    \* The locals of one iteration of the loop. Each is written before it is
    \* read in the next iteration (cli.py:78, 81, 82, 121), so they are let go
    \* when the loop returns to the prompt.
    original_input,   \* cli.py:82
    user_input,       \* cli.py:78, 85, 91, 97
    current_provider, \* cli.py:81, 87, 93, 99
    full_response,    \* cli.py:121, 124
    fragments,        \* what generate_response_sync has yielded in this call
    request,          \* what the adapter of this call sent to the vendor
    gen,              \* the generator of this call: "idle" (none), "running",
                      \* "exhausted" (returned), "failed" (returned after
                      \* the error fragment)
    chunk_idx,        \* vendor chunks received in this call
    in_flight,        \* generate calls whose fragment sequence has not ended
    last_exc,         \* what the last except clause of chat_loop caught
    turn              \* iterations of the while loop begun

vars == <<pc, config, provider_arg, chosen, provider, messages, original_input,
          user_input, current_provider, full_response, fragments, request, gen,
          chunk_idx, in_flight, last_exc, turn>>

\* ---------------------------------------------------------------- bounds

\* Iterations of chat_loop's while loop that are explored.
MaxTurns == 2

\* ------------------------------------------------------------- constants

None == "None"

\* start: chat is entered; exit1: typer.Exit(1); raised: an exception left chat;
\* prompt: cli.py:78 waits for a line; parsed: the line is read and the handle
\* of the turn selected (before cli.py:103); stream: the for statement of
\* cli.py:122 consumes a reply; shutdown: chat_loop has returned.
PcValues ==
    {"start", "exit1", "raised", "prompt", "parsed", "stream", "shutdown"}

\* The values a credential of the settings file can have: absent, empty, set.
KeyValues(k) == {None, "", k}

ApiConfigs ==
    [openai_api_key : KeyValues("sk-openai"),
     anthropic_api_key : KeyValues("sk-anthropic"),
     gemini_api_key : KeyValues("sk-gemini")]

ModelConfig == [name |-> "gpt-4", temperature |-> "0.7", max_tokens |-> 1024]

\* --provider is free text: a supported name, another name, or not given.
ProviderArgs == {None, "openai", "claude", "gemini", "bard"}

system_prompt == [role |-> "system", content |-> <<"You are Jarvis">>]

\* A handle is the adapter's class and attributes and the object's identity:
\* "default" for the adapter of cli.py:185, "turn" for one of cli.py:87-99.
NoHandle ==
    [cls |-> None, api_key |-> None, model |-> None, temperature |-> None,
     max_tokens |-> 0, id |-> None]

NoRequest == [to |-> None, payload |-> <<>>]

\* The lines the user types (PromptSession.prompt returns them without the
\* newline).
Lines ==
    { <<>>,
      <<"h">>,
      <<"o", ":">>,
      <<"c", ":", " ">>,
      <<"o", ":", " ", "h">>,
      <<"c", ":", "h">>,
      <<"g", ":", "h", " ">>,
      <<"x", ":", " ", "h", " ">>,
      <<"o", ":", "c", ":", "h">>,
      <<" ", "o", ":", "h">> }

\* The content deltas of a vendor's stream, in order; an empty delta is a
\* chunk that carries no content. A stream ends, or fails, after any number
\* of them.
VendorStream == <<<<"a">>, <<>>, <<"b">>>>

\* The text of a Gemini response.
GeminiText == <<"g">>

\* str(e) of a vendor failure.
VendorMessage == <<"boom">>

\* ------------------------------------------------------------ Python text

Whitespace == {" ", "\t", "\n"}

startswith(s, p) == Len(s) >= Len(p) /\ SubSeq(s, 1, Len(p)) = p

\* str.strip(): drops the whitespace at both ends.
RECURSIVE lstrip(_)
lstrip(s) == IF s # <<>> /\ Head(s) \in Whitespace THEN lstrip(Tail(s)) ELSE s

RECURSIVE rstrip(_)
rstrip(s) ==
    IF s # <<>> /\ s[Len(s)] \in Whitespace
    THEN rstrip(SubSeq(s, 1, Len(s) - 1))
    ELSE s

strip(s) == rstrip(lstrip(s))

InSeq(x, s) == \E i \in 1..Len(s) : s[i] = x

IsPrefix(s, t) == Len(s) <= Len(t) /\ SubSeq(t, 1, Len(s)) = s

Last(s) == s[Len(s)]

\* ------------------------------------------------------------- config.py

\* A faulty variant of Truthy: only None counts as absent.
Truthy_not_none(key) == key # None

\* Truth value of an Optional[SecretStr]: None and the empty secret are false.
Truthy(key) == key # None /\ key # ""

get_available_providers(cfg) ==
    (IF Truthy(cfg.api.openai_api_key) THEN <<"openai">> ELSE <<>>)
    \o (IF Truthy(cfg.api.anthropic_api_key) THEN <<"claude">> ELSE <<>>)
    \o (IF Truthy(cfg.api.gemini_api_key) THEN <<"gemini">> ELSE <<>>)

\* ----------------------------------------------------------- providers.py

AdapterClass ==
    [openai |-> "OpenAIProvider", claude |-> "AnthropicProvider",
     gemini |-> "GeminiProvider"]

CredentialOf(name, cfg) ==
    CASE name = "openai" -> cfg.api.openai_api_key
      [] name = "claude" -> cfg.api.anthropic_api_key
      [] name = "gemini" -> cfg.api.gemini_api_key

\* The adapter constructors: AIProvider.__init__ keeps the four settings, and
\* each subclass reads api_key.get_secret_value(), which a None credential
\* does not have.
NewAdapter(name, cfg) ==
    IF CredentialOf(name, cfg) = None
    THEN [raised |-> "AttributeError", handle |-> NoHandle]
    ELSE [raised |-> None,
          handle |-> [cls |-> AdapterClass[name],
                      api_key |-> CredentialOf(name, cfg),
                      model |-> cfg.model.name,
                      temperature |-> cfg.model.temperature,
                      max_tokens |-> cfg.model.max_tokens,
                      id |-> None]]

get_provider(name, cfg) ==
    IF name \notin DOMAIN AdapterClass
    THEN [raised |-> "ValueError", handle |-> NoHandle]
    ELSE NewAdapter(name, cfg)

\* str.capitalize() of the three roles.
capitalize(role) ==
    CASE role = "system" -> "System"
      [] role = "user" -> "User"
      [] role = "assistant" -> "Assistant"

RECURSIVE JoinTurns(_)
JoinTurns(msgs) ==
    IF msgs = <<>> THEN <<>>
    ELSE <<capitalize(Head(msgs).role), ": ">> \o Head(msgs).content
         \o (IF Tail(msgs) = <<>> THEN <<>> ELSE <<"\n">> \o JoinTurns(Tail(msgs)))

\* AnthropicProvider.generate_response: the flattened prompt.
anthropic_prompt(msgs) == JoinTurns(msgs) \o <<"\nAssistant:">>

\* GeminiProvider.generate_response, first loop: the system turns are taken
\* out, the last one's content is kept.
RECURSIVE filtered_messages(_)
filtered_messages(msgs) ==
    IF msgs = <<>> THEN <<>>
    ELSE IF Head(msgs).role = "system" THEN filtered_messages(Tail(msgs))
    ELSE <<Head(msgs)>> \o filtered_messages(Tail(msgs))

\* system_content of the first loop, as a list: empty while it is None.
RECURSIVE system_content(_)
system_content(msgs) ==
    IF msgs = <<>> THEN <<>>
    ELSE IF Last(msgs).role = "system" THEN <<Last(msgs).content>>
    ELSE system_content(SubSeq(msgs, 1, Len(msgs) - 1))

\* Second loop: user stays user, assistant becomes model, any other role is
\* skipped.
RECURSIVE gemini_convert(_)
gemini_convert(msgs) ==
    IF msgs = <<>> THEN <<>>
    ELSE (CASE Head(msgs).role = "user" ->
                 <<[role |-> "user", parts |-> Head(msgs).content]>>
            [] Head(msgs).role = "assistant" ->
                 <<[role |-> "model", parts |-> Head(msgs).content]>>
            [] OTHER -> <<>>)
         \o gemini_convert(Tail(msgs))

\* A faulty variant of gemini_history: the role of history[0] is not asked.
gemini_history_any_first(msgs) ==
    LET history == gemini_convert(filtered_messages(msgs))
        sys == system_content(msgs)
    IN  IF sys # <<>> /\ sys[1] # <<>> /\ history # <<>>
        THEN <<[role |-> history[1].role,
                parts |-> sys[1] \o <<"\n\n">> \o history[1].parts]>>
             \o Tail(history)
        ELSE history

\* providers.py:97-121: the history handed to generate_content.
gemini_history(msgs) ==
    LET history == gemini_convert(filtered_messages(msgs))
        sys == system_content(msgs)
    IN  IF sys # <<>> /\ sys[1] # <<>> /\ history # <<>> /\ history[1].role = "user"
        THEN <<[role |-> "user", parts |-> sys[1] \o <<"\n\n">> \o history[1].parts]>>
             \o Tail(history)
        ELSE history

\* What the adapter of class cls sends to its vendor for the transcript msgs.
RequestOf(cls, msgs) ==
    CASE cls = "OpenAIProvider" -> [to |-> "openai", payload |-> msgs]
      [] cls = "AnthropicProvider" ->
             [to |-> "anthropic", payload |-> anthropic_prompt(msgs)]
      [] cls = "GeminiProvider" ->
             [to |-> "gemini", payload |-> gemini_history(msgs)]

\* A faulty variant of TranscriptAfterRequest: Gemini's history shares the dicts of the
\* transcript, so the system text is written into the first user turn.
TranscriptAfterRequest_aliased(cls, msgs) ==
    IF cls = "GeminiProvider" /\ Len(msgs) >= 2 /\ msgs[2].role = "user"
    THEN [msgs EXCEPT ![2].content = gemini_history(msgs)[1].parts]
    ELSE msgs

\* The transcript after an adapter has built its request from it: OpenAI hands
\* the list over, Anthropic reads it, Gemini copies each content into a dict
\* and a parts list of its own and writes the system text into that copy.
TranscriptAfterRequest(cls, msgs) == msgs

\* The in-band fragment of the except clause: f"Error: {str(e)}".
ErrorFragment(msg) == <<"Error: ">> \o msg

\* generate_response: the fragments yielded for one chunk of the vendor's
\* stream. OpenAI and Anthropic skip a chunk without content; Gemini yields
\* response.text as it is.
Yielded(cls, chunk) ==
    IF cls = "GeminiProvider" THEN <<chunk>>
    ELSE IF chunk # <<>> THEN <<chunk>> ELSE <<>>

\* A faulty variant of OnVendorFailure: the try covers the request only, a failure
\* while the stream is read propagates.
OnVendorFailure_request_only(cls, idx) == IF idx = 0 THEN "yield" ELSE "raise"

\* generate_response, except Exception: the failure becomes a fragment.
OnVendorFailure(cls, idx) == "yield"

\* A faulty variant of CloseGenerator: a dropped or ended call is left open.
CloseGenerator_leak(n) == n

\* generate_response_sync, finally: the call's event loop is closed when the
\* generator ends or is dropped.
CloseGenerator(n) == n - 1

\* ------------------------------------------------------------------ cli.py

Range(s) == {s[i] : i \in 1..Len(s)}

\* A faulty variant of Choices: a requested provider is taken as it is.
Choices_as_requested(arg, available) ==
    IF arg # None THEN {arg} ELSE Range(available)

\* cli.py:148: the requested provider if it is available, else random.choice.
Choices(arg, available) ==
    IF InSeq(arg, available) THEN {arg} ELSE Range(available)

\* cli.py:84-101, the elif chain: the provider a shortcut names.
shortcut(line) ==
    IF startswith(line, <<"g", ":">>) THEN "gemini"
    ELSE IF startswith(line, <<"o", ":">>) THEN "openai"
    ELSE IF startswith(line, <<"c", ":">>) THEN "claude"
    ELSE None

\* A faulty variant of after_shortcut: every line is stripped.
after_shortcut_strip_all(line) ==
    strip(IF shortcut(line) # None THEN SubSeq(line, 3, Len(line)) ELSE line)

\* cli.py:85, 91, 97: user_input[2:].strip() under a shortcut.
after_shortcut(line) ==
    IF shortcut(line) # None THEN strip(SubSeq(line, 3, Len(line))) ELSE line

\* A faulty variant of overrides: availability is not asked.
overrides_unchecked(line, cfg) == shortcut(line) # None

\* cli.py:86, 92, 98: the shortcut's provider is constructed only if available.
overrides(line, cfg) ==
    shortcut(line) # None /\ InSeq(shortcut(line), get_available_providers(cfg))

\* A faulty variant of is_abandoned: the check is missing.
is_abandoned_never(text) == FALSE

\* cli.py:104: if not user_input: continue
is_abandoned(text) == text = <<>>

\* cli.py:107, 127: messages.append({"role": ..., "content": ...})
AppendTurn(msgs, role, content) ==
    Append(msgs, [role |-> role, content |-> content])

\* A faulty variant of Accumulate: the chunk is put in front.
Accumulate_prepend(full, chunk) == chunk \o full

\* cli.py:124: full_response += chunk
Accumulate(full, chunk) == full \o chunk

\* A faulty variant of AfterException: every exception ends the loop.
AfterException_break(exc) == "shutdown"

\* cli.py:129-134: the two except clauses of the loop.
AfterException(exc) == IF exc = "KeyboardInterrupt" THEN "shutdown" ELSE "prompt"

\* A faulty variant of OnInterrupt: what was received so far is committed.
OnInterrupt_commit(msgs, full) ==
    Append(msgs, [role |-> "assistant", content |-> full])

\* cli.py:129-131: the transcript when KeyboardInterrupt reaches the loop.
OnInterrupt(msgs, full) == msgs

\* ------------------------------------------------------------------- state

Init ==
    /\ pc = "start"
    /\ config \in [api : ApiConfigs, model : {ModelConfig}]
    /\ provider_arg \in ProviderArgs
    /\ chosen = None
    /\ provider = NoHandle
    /\ messages = <<>>
    /\ original_input = <<>>
    /\ user_input = <<>>
    /\ current_provider = NoHandle
    /\ full_response = <<>>
    /\ fragments = <<>>
    /\ request = NoRequest
    /\ gen = "idle"
    /\ chunk_idx = 0
    /\ in_flight = 0
    /\ last_exc = None
    /\ turn = 0

\* cli.py:137-186, chat up to the call of chat_loop. Line 185 rebinds the
\* name provider: the option is not held any more once the handle is.
\* sdk_ok: the vendor SDK's client constructor returns (providers.py:46, 69,
\* 94-95) rather than raises.
chat ==
    /\ pc = "start"
    /\ LET available == get_available_providers(config)
       IN  IF available = <<>>
           THEN /\ pc' = "exit1"
                /\ UNCHANGED <<chosen, provider, provider_arg, messages>>
           ELSE \E c \in Choices(provider_arg, available), sdk_ok \in BOOLEAN :
                  LET r == get_provider(c, config)
                  IN  /\ chosen' = c
                      /\ messages' = <<system_prompt>>
                      /\ IF r.raised # None \/ ~sdk_ok
                         THEN /\ pc' = "raised"
                              /\ UNCHANGED <<provider, provider_arg>>
                         ELSE /\ pc' = "prompt"
                              /\ provider' = [r.handle EXCEPT !.id = "default"]
                              /\ provider_arg' = None
    /\ UNCHANGED <<config, original_input, user_input, current_provider,
                   full_response, fragments, request, gen, chunk_idx,
                   in_flight, last_exc, turn>>

\* The locals of an iteration that has ended.
NoLocals ==
    /\ original_input' = <<>>
    /\ user_input' = <<>>
    /\ current_provider' = NoHandle
    /\ full_response' = <<>>

\* The call of generate_response_sync that has ended or was dropped.
NoCall ==
    /\ gen' = "idle"
    /\ fragments' = <<>>
    /\ request' = NoRequest
    /\ chunk_idx' = 0

\* cli.py:75-101: a line is read, a shortcut is stripped and the handle of the
\* turn is selected. An exception of get_provider goes to the except clause.
Prompt ==
    /\ pc = "prompt"
    /\ turn < MaxTurns
    /\ \E line \in Lines, sdk_ok \in BOOLEAN :
         LET ov == overrides(line, config)
             r == IF ov THEN get_provider(shortcut(line), config)
                  ELSE [raised |-> None, handle |-> provider]
             failed == ov /\ (r.raised # None \/ ~sdk_ok)
         IN  /\ turn' = turn + 1
             /\ IF failed
                THEN /\ last_exc' = IF r.raised # None THEN r.raised ELSE "SDKError"
                     /\ pc' = AfterException(last_exc')
                     /\ NoLocals
                ELSE /\ original_input' = line
                     /\ user_input' = after_shortcut(line)
                     /\ current_provider' =
                          IF ov THEN [r.handle EXCEPT !.id = "turn"]
                          ELSE provider
                     /\ full_response' = <<>>
                     /\ last_exc' = None
                     /\ pc' = "parsed"
    /\ UNCHANGED <<config, provider_arg, chosen, provider, messages, fragments,
                   request, gen, chunk_idx, in_flight>>

\* cli.py:78: session.prompt raises EOFError (end of input).
PromptEOF ==
    /\ pc = "prompt"
    /\ turn < MaxTurns
    /\ turn' = turn + 1
    /\ last_exc' = "EOFError"
    /\ pc' = AfterException(last_exc')
    /\ NoLocals
    /\ UNCHANGED <<config, provider_arg, chosen, provider, messages, fragments,
                   request, gen, chunk_idx, in_flight>>

\* cli.py:103-122: an empty text abandons the turn; otherwise the user turn is
\* appended and generate_response_sync is called on the transcript.
Dispatch ==
    /\ pc = "parsed"
    /\ IF is_abandoned(user_input)
       THEN /\ pc' = "prompt"
            /\ NoLocals
            /\ UNCHANGED <<messages, fragments, request, gen, chunk_idx,
                           in_flight>>
       ELSE /\ messages' =
                 TranscriptAfterRequest(current_provider.cls,
                     AppendTurn(messages, "user", user_input))
            /\ request' =
                 RequestOf(current_provider.cls,
                     AppendTurn(messages, "user", user_input))
            /\ fragments' = <<>>
            /\ gen' = "running"
            /\ chunk_idx' = 0
            /\ in_flight' = in_flight + 1
            /\ pc' = "stream"
            /\ UNCHANGED <<original_input, user_input, current_provider,
                           full_response>>
    /\ UNCHANGED <<config, provider_arg, chosen, provider, last_exc, turn>>

\* The chunk the vendor delivers next to the adapter of class cls.
NextChunk(cls, idx) ==
    IF cls = "GeminiProvider" THEN GeminiText ELSE VendorStream[idx + 1]

RECURSIVE Consume(_, _)
\* cli.py:122-124 over the fragments of one chunk.
Consume(full, frags) ==
    IF frags = <<>> THEN full
    ELSE Consume(Accumulate(full, Head(frags)), Tail(frags))

\* cli.py:122-124 with providers.py:32-35: the vendor delivers one more chunk,
\* the adapter yields its fragments and the loop prints and accumulates them.
\* Gemini's generate_content returns the whole reply, and its generator ends
\* after the one yield.
StreamChunk ==
    /\ pc = "stream"
    /\ gen = "running"
    /\ chunk_idx < Len(VendorStream)
    /\ LET cls == current_provider.cls
           ys == Yielded(cls, NextChunk(cls, chunk_idx))
       IN  /\ chunk_idx' = chunk_idx + 1
           /\ fragments' = fragments \o ys
           /\ full_response' = Consume(full_response, ys)
           /\ gen' = IF cls = "GeminiProvider" THEN "exhausted" ELSE "running"
    /\ UNCHANGED <<pc, config, provider_arg, chosen, provider, messages,
                   original_input, user_input, current_provider, request,
                   in_flight, last_exc, turn>>

\* The vendor call fails (at the request, or while the stream is read): the
\* adapter's except clause yields the error text and the generator ends.
StreamFail ==
    /\ pc = "stream"
    /\ gen = "running"
    /\ IF OnVendorFailure(current_provider.cls, chunk_idx) = "yield"
       THEN /\ fragments' = Append(fragments, ErrorFragment(VendorMessage))
            /\ full_response' =
                 Consume(full_response, <<ErrorFragment(VendorMessage)>>)
            /\ gen' = "failed"
            /\ UNCHANGED <<pc, in_flight, last_exc, request, chunk_idx,
                           original_input, user_input, current_provider>>
       ELSE /\ last_exc' = "VendorError"
            /\ pc' = AfterException(last_exc')
            /\ in_flight' = CloseGenerator(in_flight)
            /\ NoCall
            /\ NoLocals
    /\ UNCHANGED <<config, provider_arg, chosen, provider, messages, turn>>

\* cli.py:125-127 with providers.py:36-39: the fragment sequence ends (the
\* vendor's stream is complete, or the generator has returned) and the reply
\* is appended.
StreamEnd ==
    /\ pc = "stream"
    /\ \/ gen \in {"exhausted", "failed"}
       \/ gen = "running" /\ current_provider.cls # "GeminiProvider"
    /\ messages' = AppendTurn(messages, "assistant", full_response)
    /\ in_flight' = CloseGenerator(in_flight)
    /\ pc' = "prompt"
    /\ NoCall
    /\ NoLocals
    /\ UNCHANGED <<config, provider_arg, chosen, provider, last_exc, turn>>

\* cli.py:123, 125: print raises (a closed or mis-encoded terminal) while the
\* reply is consumed; except Exception of the loop catches it.
StreamPrintError ==
    /\ pc = "stream"
    /\ last_exc' = "OSError"
    /\ pc' = AfterException(last_exc')
    /\ in_flight' = CloseGenerator(in_flight)
    /\ NoCall
    /\ NoLocals
    /\ UNCHANGED <<config, provider_arg, chosen, provider, messages, turn>>

\* cli.py:129-131: KeyboardInterrupt while the line is read, between two
\* statements of the turn, or while the reply is consumed. A generator that
\* was being consumed is dropped and closes its event loop.
Interrupt ==
    /\ pc \in {"prompt", "parsed", "stream"}
    /\ last_exc' = "KeyboardInterrupt"
    /\ pc' = AfterException(last_exc')
    /\ IF pc = "stream"
       THEN /\ messages' = OnInterrupt(messages, full_response)
            /\ in_flight' = CloseGenerator(in_flight)
            /\ NoCall
       ELSE UNCHANGED <<messages, in_flight, gen, fragments, request, chunk_idx>>
    /\ UNCHANGED <<config, provider_arg, chosen, provider, original_input,
                   user_input, current_provider, full_response, turn>>

Next ==
    \/ chat
    \/ Prompt
    \/ PromptEOF
    \/ Dispatch
    \/ StreamChunk
    \/ StreamFail
    \/ StreamEnd
    \/ StreamPrintError
    \/ Interrupt

Spec == Init /\ [][Next]_vars

TypeOK ==
    /\ pc \in PcValues
    /\ turn \in 0..MaxTurns
    /\ in_flight \in 0..1
    /\ gen \in {"idle", "running", "exhausted", "failed"}

\* ------------------------------------------------------------------ claims
\* The claims state the expected behaviour from the line that was typed and
\* the credentials of the settings, not from the operators of the loop.

\* A provider is available iff its credential is present and not empty.
Available(name) == CredentialOf(name, config) \notin {None, ""}

NoCredential == \A n \in DOMAIN AdapterClass : ~Available(n)

\* The provider a line's two-character prefix names, None without a prefix.
Named(line) ==
    IF Len(line) < 2 \/ line[2] # ":" THEN None
    ELSE IF line[1] = "o" THEN "openai"
    ELSE IF line[1] = "c" THEN "claude"
    ELSE IF line[1] = "g" THEN "gemini"
    ELSE None

\* The text a line leaves for the user turn.
Remainder(line) ==
    IF Named(line) = None THEN line ELSE strip(SubSeq(line, 3, Len(line)))

RECURSIVE Flatten(_)
Flatten(frags) ==
    IF frags = <<>> THEN <<>> ELSE Head(frags) \o Flatten(Tail(frags))

IsErrorFragment(f) == f = <<"Error: ">> \o VendorMessage

\* C1: while a reply is generated, the active handle is a handle of the
\* provider the line's prefix names iff the prefix is one of o:, c:, g: and
\* that provider is available; otherwise it is the default handle. It holds
\* in every turn, so an override never outlives its turn.
C1_HandleSelection ==
    pc = "stream" =>
        IF Named(original_input) # None /\ Available(Named(original_input))
        THEN /\ current_provider.cls = AdapterClass[Named(original_input)]
             /\ current_provider.api_key =
                  CredentialOf(Named(original_input), config)
             /\ current_provider.id # provider.id
        ELSE current_provider = provider

\* A second turn without prefix runs on the default OpenAI handle after a turn
\* that the Gemini override answered.
C1_Witness ==
    /\ pc = "stream"
    /\ turn = 2
    /\ Named(original_input) = None
    /\ current_provider = provider
    /\ provider.cls = "OpenAIProvider"
    /\ Len(messages) = 4
    /\ messages[3] = [role |-> "assistant", content |-> GeminiText]

\* C2: the user turn appended for a line carries the text after a recognized
\* prefix, stripped, whether or not the provider is available, and the line
\* unchanged when it has no recognized prefix; one prefix is stripped at most.
C2_UserTurnContent ==
    pc = "stream" =>
        /\ Last(messages) = [role |-> "user", content |-> Remainder(original_input)]
        /\ original_input = <<"x", ":", " ", "h", " ">> =>
             Last(messages).content = <<"x", ":", " ", "h", " ">>
        /\ original_input = <<"o", ":", "c", ":", "h">> =>
             Last(messages).content = <<"c", ":", "h">>

\* "o:c:h" typed while OpenAI is unavailable: "c:h" is the user turn.
C2_Witness ==
    /\ pc = "stream"
    /\ original_input = <<"o", ":", "c", ":", "h">>
    /\ ~Available("openai")
    /\ Last(messages).content = <<"c", ":", "h">>

\* C3: a line whose remainder is empty abandons the turn: the step that reads
\* it leaves the transcript as it is, starts no generate call and returns to
\* the prompt.
C3_EmptyTurnAbandoned ==
    [][(pc = "parsed" /\ Remainder(original_input) = <<>>)
       => (/\ messages' = messages
           /\ pc' \in {"prompt", "shutdown"}
           /\ in_flight' = 0
           /\ gen' = "idle"
           /\ request' = NoRequest)]_vars

\* The first iteration has ended without an exception and without a turn:
\* its line was abandoned.
C3_Witness ==
    /\ pc = "prompt"
    /\ turn = 1
    /\ last_exc = None
    /\ messages = <<system_prompt>>
    /\ in_flight = 0

\* C4: the transcript only grows: every step leaves the earlier transcript a
\* prefix of the later one, and the first element is the one system turn.
C4_AppendOnly ==
    /\ [][IsPrefix(messages, messages')]_vars
    /\ [](messages # <<>> =>
            /\ messages[1] = system_prompt
            /\ \A i \in 2..Len(messages) : messages[i].role # "system")

\* The Gemini adapter has answered on a transcript that holds an earlier turn.
C4_Witness ==
    /\ pc = "stream"
    /\ current_provider.cls = "GeminiProvider"
    /\ gen = "exhausted"
    /\ Len(messages) = 4
    /\ messages[3].role = "assistant"

\* C5: a vendor failure never reaches the loop as an exception; it is the one
\* error fragment, the last of the call, after the fragments yielded before
\* it, and the text received is committed as the assistant turn.
C5_AdapterErrorPolicy ==
    /\ [](last_exc # "VendorError")
    /\ [](gen = "failed" =>
            /\ pc = "stream"
            /\ fragments # <<>>
            /\ IsErrorFragment(Last(fragments))
            /\ \A i \in 1..(Len(fragments) - 1) : ~IsErrorFragment(fragments[i])
            /\ full_response = Flatten(fragments))
    /\ [][(gen = "failed" /\ pc' = "prompt" /\ last_exc' = None)
          => messages' =
               Append(messages, [role |-> "assistant", content |-> full_response])]_vars

\* A stream that failed after its first fragment, committed.
C5_Witness ==
    /\ pc = "prompt"
    /\ last_exc = None
    /\ Last(messages) =
         [role |-> "assistant", content |-> <<"a", "Error: ">> \o VendorMessage]

\* C6: the loop has ended iff KeyboardInterrupt was caught, and it ends by
\* returning; after any other exception the loop is at the prompt again, and
\* no step of the loop leaves it otherwise.
C6_LoopTermination ==
    /\ [](pc = "shutdown" <=> last_exc = "KeyboardInterrupt")
    /\ [](last_exc \notin {None, "KeyboardInterrupt"} => pc = "prompt")
    /\ [][(pc \in {"prompt", "parsed", "stream"})
          => (pc' \in {"prompt", "parsed", "stream", "shutdown"})]_vars

\* A failure while the reply was consumed: the loop is at the prompt.
C6_Witness ==
    /\ pc = "prompt"
    /\ last_exc = "OSError"
    /\ turn < MaxTurns
    /\ Last(messages).role = "user"

\* C7: the step that ends the session on an interrupt leaves the transcript
\* as it is: no assistant turn, partial or complete, is appended.
C7_Cancellation ==
    [][(pc # "shutdown" /\ pc' = "shutdown") => messages' = messages]_vars

\* Interrupted in the second turn after the first fragment: the transcript
\* ends with that turn's user turn, the fragment is in no turn.
C7_Witness ==
    /\ pc = "shutdown"
    /\ turn = 2
    /\ full_response = <<"a">>
    /\ Len(messages) = 4
    /\ Last(messages) = [role |-> "user", content |-> user_input]

\* What the request of a call shows of the transcript's last turn.
RequestEndsWithUserTurn ==
    CASE request.to = "openai" ->
           Last(request.payload) = [role |-> "user", content |-> user_input]
      [] request.to = "anthropic" ->
           LET tail == <<"User", ": ">> \o user_input \o <<"\nAssistant:">>
               n == Len(request.payload)
           IN  /\ n >= Len(tail)
               /\ SubSeq(request.payload, n - Len(tail) + 1, n) = tail
      [] request.to = "gemini" ->
           /\ Last(request.payload).role = "user"
           /\ \E k \in 0..Len(Last(request.payload).parts) :
                SubSeq(Last(request.payload).parts, k + 1,
                       Len(Last(request.payload).parts)) = user_input
      [] OTHER -> FALSE

\* C8: a turn that completes appends one assistant turn right after its user
\* turn, with the fragments of the call concatenated in the order they were
\* yielded; the call was made on the transcript ending with that user turn.
C8_ReplyAccumulation ==
    /\ [][(pc = "stream" /\ pc' = "prompt" /\ last_exc' = None)
          => /\ Last(messages) = [role |-> "user", content |-> user_input]
             /\ messages' =
                  Append(messages,
                         [role |-> "assistant", content |-> Flatten(fragments)])]_vars
    /\ [](pc = "stream" =>
            /\ Last(messages) = [role |-> "user", content |-> user_input]
            /\ RequestEndsWithUserTurn)

\* Two fragments, "a" then "b", committed as "ab".
C8_Witness ==
    /\ pc = "prompt"
    /\ Len(messages) = 3
    /\ Last(messages) = [role |-> "assistant", content |-> <<"a", "b">>]

\* C9: at most one generate call is in flight, and only while the loop
\* consumes its fragments: none at the prompt, none after the loop has ended.
C9_OneCallInFlight ==
    /\ in_flight \in {0, 1}
    /\ pc = "stream" <=> in_flight = 1
    /\ pc = "stream" <=> gen # "idle"
    /\ pc = "stream" <=> request # NoRequest

\* The second call of a session, started after the first had ended.
C9_Witness ==
    /\ pc = "stream"
    /\ turn = 2
    /\ in_flight = 1
    /\ Len(messages) = 4

\* C10: with no available provider chat exits with an error: no transcript,
\* no handle, and the loop is never entered.
C10_NoProviders ==
    /\ NoCredential =>
         /\ pc \in {"start", "exit1"}
         /\ messages = <<>>
              /\ provider = NoHandle
         /\ turn = 0
    /\ pc = "exit1" => NoCredential

\* Exit with an empty OpenAI key and no other key.
C10_Witness ==
    /\ pc = "exit1"
    /\ config.api.openai_api_key = ""
    /\ config.api.anthropic_api_key = None
    /\ messages = <<>>

\* ------------------------------------------------------------ C11: factory

\* get_provider on its own: name is a str, config a Config().model_dump().
FactoryNames == {"openai", "claude", "gemini", "bard"}

\* pc: "call" before get_provider is entered, "returned" once it has returned
\* a handle, "raised" once an exception has left it.
FactoryInit ==
    /\ pc = "call"
    /\ config \in [api : ApiConfigs, model : {ModelConfig}]
    /\ provider_arg \in FactoryNames
    /\ chosen = None
    /\ provider = NoHandle
    /\ messages = <<>>
    /\ original_input = <<>>
    /\ user_input = <<>>
    /\ current_provider = NoHandle
    /\ full_response = <<>>
    /\ fragments = <<>>
    /\ request = NoRequest
    /\ gen = "idle"
    /\ chunk_idx = 0
    /\ in_flight = 0
    /\ last_exc = None
    /\ turn = 0

\* providers.py:135-161, one call get_provider(provider_arg, config).
\* sdk_ok: the vendor SDK's client constructor returns (providers.py:46, 69,
\* 94-95) rather than raises.
FactoryCall ==
    /\ pc = "call"
    /\ \E sdk_ok \in BOOLEAN :
         LET r == get_provider(provider_arg, config)
         IN  IF r.raised # None
             THEN pc' = "raised" /\ last_exc' = r.raised /\ UNCHANGED provider
             ELSE IF ~sdk_ok
             THEN pc' = "raised" /\ last_exc' = "SDKError" /\ UNCHANGED provider
             ELSE pc' = "returned" /\ provider' = r.handle /\ UNCHANGED last_exc
    /\ UNCHANGED <<config, provider_arg, chosen, messages, original_input,
                   user_input, current_provider, full_response, fragments,
                   request, gen, chunk_idx, in_flight, turn>>

FactoryNext == FactoryCall

FactorySpec == FactoryInit /\ [][FactoryNext]_vars

\* C11: get_provider called with an identifier outside {"openai", "claude",
\* "gemini"} fails with the unknown-provider error (ValueError) and returns
\* no handle; called with a supported identifier it constructs, unless the
\* vendor SDK itself refuses, the adapter of exactly that vendor, holding
\* that vendor's credential and the shared model name, temperature and
\* max-token settings.
C11_ProviderFactory ==
    pc # "call" =>
      /\ provider_arg \notin DOMAIN AdapterClass =>
           pc = "raised" /\ last_exc = "ValueError" /\ provider = NoHandle
      /\ (provider_arg \in DOMAIN AdapterClass /\ last_exc # "SDKError") =>
           /\ pc = "returned"
           /\ provider.cls = AdapterClass[provider_arg]
           /\ provider.api_key = CredentialOf(provider_arg, config)
           /\ provider.model = config.model.name
           /\ provider.temperature = config.model.temperature
           /\ provider.max_tokens = config.model.max_tokens
\* ------------------------------------------------- C12: Gemini turns list

\* Length of the transcripts handed to GeminiProvider.generate_response.
GeminiMaxLen == 4

\* The turns of those transcripts: a system turn (the session's, another, an
\* empty one), user turns, assistant turns (a reply can be empty).
GeminiTurns ==
    [role : {"system"}, content : {system_prompt.content, <<"T">>, <<>>}]
    \cup [role : {"user"}, content : {<<"a">>, <<"c">>}]
    \cup [role : {"assistant"}, content : {<<"b">>, <<>>}]

Transcripts == UNION {[1..n -> GeminiTurns] : n \in 0..GeminiMaxLen}

GeminiConfig ==
    [api |-> [openai_api_key |-> None, anthropic_api_key |-> None,
              gemini_api_key |-> "sk-gemini"],
     model |-> ModelConfig]

\* pc: "call" before generate_response runs, "sent" once the history is built
\* and handed to generate_content, "yielded" once the one fragment is out.
GeminiInit ==
    /\ pc = "call"
    /\ config = GeminiConfig
    /\ provider_arg = None
    /\ chosen = None
    /\ provider = NoHandle
    /\ messages \in Transcripts
    /\ original_input = <<>>
    /\ user_input = <<>>
    /\ current_provider = get_provider("gemini", GeminiConfig).handle
    /\ full_response = <<>>
    /\ fragments = <<>>
    /\ request = NoRequest
    /\ gen = "idle"
    /\ chunk_idx = 0
    /\ in_flight = 0
    /\ last_exc = None
    /\ turn = 0

\* providers.py:97-129: the history is built from messages and sent.
GeminiBuild ==
    /\ pc = "call"
    /\ request' = RequestOf(current_provider.cls, messages)
    /\ messages' = TranscriptAfterRequest(current_provider.cls, messages)
    /\ gen' = "running"
    /\ pc' = "sent"
    /\ UNCHANGED <<config, provider_arg, chosen, provider, original_input,
                   user_input, current_provider, full_response, fragments,
                   chunk_idx, in_flight, last_exc, turn>>

\* providers.py:123-133: response.text, or the error text, is the fragment.
GeminiGenerate ==
    /\ pc = "sent"
    /\ \E ok \in BOOLEAN :
         IF ok
         THEN /\ fragments' = Yielded(current_provider.cls, GeminiText)
              /\ gen' = "exhausted"
         ELSE /\ fragments' = <<ErrorFragment(VendorMessage)>>
              /\ gen' = "failed"
    /\ pc' = "yielded"
    /\ UNCHANGED <<config, provider_arg, chosen, provider, messages,
                   original_input, user_input, current_provider,
                   full_response, request, chunk_idx, in_flight, last_exc,
                   turn>>

GeminiNext == GeminiBuild \/ GeminiGenerate

GeminiSpec == GeminiInit /\ [][GeminiNext]_vars

\* The transcript without its system turns, and the places of those.
NonSystem == SelectSeq(messages, LAMBDA m : m.role # "system")

SystemAt == {j \in 1..Len(messages) : messages[j].role = "system"}

LeadingUser == NonSystem # <<>> /\ NonSystem[1].role = "user"

\* Every turn of the list but the first is the non-system turn of its place,
\* user kept and assistant become model; so is the first, up to its text.
TurnsKept ==
    /\ Len(request.payload) = Len(NonSystem)
    /\ \A i \in 1..Len(NonSystem) :
         /\ request.payload[i].role =
              (IF NonSystem[i].role = "assistant" THEN "model"
               ELSE NonSystem[i].role)
         /\ i > 1 => request.payload[i].parts = NonSystem[i].content

\* The claim as it stands (C12): if a system turn exists and a user turn
\* leads, the first text is that system turn's content, a blank line and the
\* user's text; otherwise the first text is unchanged.
C12_GeminiTurnsList_AnySystemTurn ==
    (pc \in {"sent", "yielded"} /\ request.to = "gemini") =>
      /\ TurnsKept
      /\ NonSystem # <<>> =>
           IF SystemAt # {} /\ LeadingUser
           THEN \E j \in SystemAt :
                  request.payload[1].parts =
                    messages[j].content \o <<"\n\n">> \o NonSystem[1].content
           ELSE request.payload[1].parts = NonSystem[1].content

\* C12: for every transcript, the list sent to Gemini holds the non-system
\* turns in their order, user kept as user and assistant mapped to model; if
\* there is a system turn whose content (the last one's, if there are
\* several) is not empty and a user turn leads, that content and a blank line
\* are put before the leading user turn's text; if no user turn leads, or the
\* system content is empty, the system content is dropped and the list is
\* otherwise unchanged.
C12_GeminiTurnsList ==
    (pc \in {"sent", "yielded"} /\ request.to = "gemini") =>
      /\ TurnsKept
      /\ NonSystem # <<>> =>
           IF /\ SystemAt # {}
              /\ \E j \in SystemAt :
                   /\ \A k \in SystemAt : k <= j
                   /\ messages[j].content # <<>>
              /\ LeadingUser
           THEN \E j \in SystemAt :
                  /\ \A k \in SystemAt : k <= j
                  /\ request.payload[1].parts =
                       messages[j].content \o <<"\n\n">> \o NonSystem[1].content
           ELSE request.payload[1].parts = NonSystem[1].content

\* [system, user(a), assistant(b), user(c)] was sent as
\* [user(system + blank line + a), model(b), user(c)].
C12_Witness ==
    /\ pc = "sent"
    /\ messages = <<system_prompt,
                    [role |-> "user", content |-> <<"a">>],
                    [role |-> "assistant", content |-> <<"b">>],
                    [role |-> "user", content |-> <<"c">>]>>
    /\ request.payload =
         <<[role |-> "user",
            parts |-> system_prompt.content \o <<"\n\n", "a">>],
           [role |-> "model", parts |-> <<"b">>],
           [role |-> "user", parts |-> <<"c">>]>>
\* ------------------------------------------------------ C13: transcript shape

\* C13: whenever the loop is about to read a line (cli.py:78), the transcript
\* is the system turn followed by (user turn, assistant turn) pairs: after
\* the system turn the roles alternate user, assistant, and the last turn is
\* not a user turn; also after turns in which a failure other than the
\* interrupt was caught once the user turn had been appended.
C13_TranscriptShape ==
    pc = "prompt" =>
      /\ messages # <<>>
      /\ messages[1] = system_prompt
      /\ \A i \in 2..Len(messages) :
           messages[i].role = (IF i % 2 = 0 THEN "user" ELSE "assistant")
      /\ Last(messages).role # "user"
\* ------------------------------------------------ C14: default provider

\* The identifier name is supported and its credential present and not empty.
InAvailableSet(name) == name \in DOMAIN AdapterClass /\ Available(name)

\* The step of chat in which get_provider is called (cli.py:185): chosen is
\* its argument.
SessionStartStep == pc = "start" /\ pc' \in {"prompt", "raised"}

\* C14: when a session starts, get_provider is called once, with a provider
\* of the available set: the requested one if and only if that one is
\* available, otherwise (not given, unavailable, unknown) a member of the
\* available set; the handle it returns is the default handle of the whole
\* session, the adapter of the chosen provider with its credential, and no
\* later step constructs another default handle.
C14_DefaultProviderChoice ==
    /\ [][SessionStartStep =>
            /\ InAvailableSet(chosen')
            /\ (chosen' = provider_arg <=> InAvailableSet(provider_arg))
            /\ pc' = "prompt" =>
                 /\ provider'.id = "default"
                 /\ provider'.cls = AdapterClass[chosen']
                 /\ provider'.api_key = CredentialOf(chosen', config)]_vars
    /\ [][pc # "start" => (provider' = provider /\ chosen' = chosen)]_vars
    /\ [](chosen # None => InAvailableSet(chosen))
    /\ [](pc \in {"prompt", "parsed", "stream", "shutdown"} =>
            provider.id = "default" /\ provider.cls = AdapterClass[chosen])
    /\ [](pc \in {"start", "exit1"} => (chosen = None /\ provider = NoHandle))

\* A session has started on Gemini while the OpenAI key is present but empty
\* and the Anthropic key is set: a turn is under way on the default handle.
C14_Witness ==
    /\ pc = "parsed"
    /\ config.api.openai_api_key = ""
    /\ config.api.anthropic_api_key # None
    /\ chosen = "gemini"
    /\ provider.cls = "GeminiProvider"
    /\ provider.api_key = "sk-gemini"
    /\ current_provider = provider
====
